---- MODULE Spec2Model ----
(***************************************************************************)
(* Model of the idea-bot MCP server (src/src/idea-bot.js) and of the       *)
(* table it reads and writes (columns and constraints of                   *)
(* src/src/db/schema.sql).                                                 *)
(*                                                                         *)
(* Encoding of JavaScript / SQL values:                                    *)
(*   - an argument that may be absent is a sequence of length 0            *)
(*     (undefined) or 1 (<<v>>, the supplied value);                       *)
(*   - project_name is a sequence of one-character strings, so that the    *)
(*     LIKE operator can be computed; category, project_phase, notes and   *)
(*     tool names are strings (only equality and emptiness matter);        *)
(*   - a template literal is the sequence of its pieces;                   *)
(*   - JSON.stringify(rows) is represented by the rows it serialises.      *)
(* created_at / updated_at are not modelled (no operation reads them).     *)
(*                                                                         *)
(* The handler reads and writes table idea_store; schema.sql declares its  *)
(* table under the name projects.  The rows of idea_store are modelled     *)
(* with the columns and constraints of schema.sql.  An error thrown by the *)
(* store for any other reason (file cannot be opened, I/O error, missing   *)
(* table) is a nondeterministic outcome of getDb() and of each statement.  *)
(***************************************************************************)
EXTENDS Integers, Sequences, FiniteSets, TLC

VARIABLES
    store,        \* rows of table idea_store, in rowid order
    pc,           \* position of the CallTool handler
    request,      \* request.params of the invocation being handled
    result,       \* the value the handler is about to return
    fault,        \* what the store layer threw in this invocation
    path,         \* dispatcher states visited by this invocation
    store0,       \* the rows when the invocation was received
    emitted,      \* results emitted for the current / last invocation
    prevError,    \* error flag of the result of the previous invocation
    lastArtifact, \* data of the last artifact result, if no row was inserted
                  \* since
    prevAdd       \* arguments and row id of the previous invocation, if it
                  \* was an add-idea that inserted a row

vars == <<store, pc, request, result, fault, path, store0, emitted,
          prevError, lastArtifact, prevAdd>>

\* ---------------------------------------------------------------- bounds
MaxRows == 2
MaxScoreRows == 1
MaxQueryRows == 2
MaxRoundTripRows == 2
MaxArtifactRows == 3

\* ------------------------------------------------------- JavaScript values
undefined == <<>>

Some(v) == <<v>>

TruthyNum(x) == Len(x) = 1 /\ x[1] # 0

TruthyStr(x) == Len(x) = 1 /\ x[1] # ""

TruthyChars(x) == Len(x) = 1 /\ Len(x[1]) > 0

OrNum_NoDefault(x, d) == IF TruthyNum(x) THEN x[1] ELSE 0

\* args.f || d, for a numeric argument
OrNum(x, d) == IF TruthyNum(x) THEN x[1] ELSE d

\* args.f || d, for a string argument
OrStr(x, d) == IF TruthyStr(x) THEN x[1] ELSE d

\* ------------------------------------------------------------- the schema
Phases == {"Planning", "In Progress", "On Hold", "Completed"}

Between(v, lo, hi) == lo <= v /\ v <= hi

TotalScore(p, s, b, r, k) == p + s + b + r + k

ProjectTier_StrictThreshold(p, s, b, r, k) ==
    IF p + s + b + r + k > 16 THEN 1
    ELSE IF p + s + b + r + k > 11 THEN 2
    ELSE 3

ProjectTier(p, s, b, r, k) ==
    IF p + s + b + r + k >= 16 THEN 1
    ELSE IF p + s + b + r + k >= 11 THEN 2
    ELSE 3

\* NOT NULL: a parameter bound from undefined is NULL
NotNullOk(v) == Len(v) = 1

\* the column constraints, in the order SQLite evaluates them:
\* "" when the row is accepted, else the message of the error thrown
ConstraintError(v) ==
    IF ~NotNullOk(v.project_name) \/ ~NotNullOk(v.category)
    THEN "SQLITE_CONSTRAINT: NOT NULL constraint failed"
    ELSE IF /\ Between(v.priority_level, 1, 4)
            /\ Between(v.size_score, 1, 3)
            /\ Between(v.business_impact, 1, 4)
            /\ Between(v.resource_type, 1, 3)
            /\ Between(v.risk_level, 1, 3)
            /\ v.project_phase \in Phases
    THEN ""
    ELSE "SQLITE_CONSTRAINT: CHECK constraint failed"

\* the row the table stores for accepted values: AUTOINCREMENT id and the
\* two GENERATED ALWAYS columns are computed by the store
NewRow(rows, v) ==
    [id |-> Len(rows) + 1,
     project_name |-> v.project_name[1],
     category |-> v.category[1],
     priority_level |-> v.priority_level,
     size_score |-> v.size_score,
     business_impact |-> v.business_impact,
     resource_type |-> v.resource_type,
     risk_level |-> v.risk_level,
     total_score |-> TotalScore(v.priority_level, v.size_score,
                                v.business_impact, v.resource_type,
                                v.risk_level),
     project_tier |-> ProjectTier(v.priority_level, v.size_score,
                                  v.business_impact, v.resource_type,
                                  v.risk_level),
     project_phase |-> v.project_phase,
     notes |-> v.notes]

\* ------------------------------------------------------------ SQL operators
\* ASCII case folding used by LIKE
Fold(c) == IF c = "A" THEN "a" ELSE IF c = "B" THEN "b" ELSE c

RECURSIVE LikeFrom(_, _, _, _)
LikeFrom(pat, i, txt, j) ==
    IF i > Len(pat) THEN j > Len(txt)
    ELSE IF pat[i] = "%"
    THEN \/ LikeFrom(pat, i + 1, txt, j)
         \/ (j <= Len(txt) /\ LikeFrom(pat, i, txt, j + 1))
    ELSE /\ j <= Len(txt)
         /\ (pat[i] = "_" \/ Fold(pat[i]) = Fold(txt[j]))
         /\ LikeFrom(pat, i + 1, txt, j + 1)

\* txt LIKE pat
Like(txt, pat) == LikeFrom(pat, 1, txt, 1)

\* one "AND col op ?" term of the query with its bound parameter
Holds(row, term) ==
    IF term.col = "project_name" THEN Like(row.project_name, term.param)
    ELSE IF term.col = "category" THEN row.category = term.param
    ELSE IF term.col = "project_tier" THEN row.project_tier = term.param
    ELSE row.project_phase = term.param

\* SELECT * FROM idea_store WHERE 1=1 AND <terms>
SelectWhere(rows, terms) ==
    SelectSeq(rows, LAMBDA r : \A n \in 1..Len(terms) : Holds(r, terms[n]))

Before_NoTieBreak(a, b) == a.priority_level > b.priority_level

\* ORDER BY priority_level DESC, total_score DESC: a sorts before b
Before(a, b) ==
    \/ a.priority_level > b.priority_level
    \/ (a.priority_level = b.priority_level /\ a.total_score > b.total_score)

RECURSIVE InsertSorted(_, _)
InsertSorted(r, s) ==
    IF s = <<>> THEN <<r>>
    ELSE IF Before(r, Head(s)) THEN <<r>> \o s
    ELSE <<Head(s)>> \o InsertSorted(r, Tail(s))

\* SELECT * FROM idea_store ORDER BY ...: the rows are scanned in rowid
\* order and sorted; rows equal on both keys keep their rowid order
RECURSIVE OrderBy(_)
OrderBy(rows) ==
    IF rows = <<>> THEN <<>>
    ELSE InsertSorted(rows[Len(rows)], OrderBy(SubSeq(rows, 1, Len(rows) - 1)))

\* ------------------------------------------------------------- the handler
NoArgs ==
    [project_name |-> undefined, category |-> undefined,
     priority_level |-> undefined, size_score |-> undefined,
     business_impact |-> undefined, resource_type |-> undefined,
     risk_level |-> undefined, project_phase |-> undefined,
     notes |-> undefined, project_tier |-> undefined,
     view_type |-> undefined]

NoRequest == [name |-> "", args |-> NoArgs]

NoResult == [text |-> <<>>, data |-> <<>>, view |-> undefined,
             isError |-> FALSE]

KnownTool_NoFallback(name) == TRUE

KnownTool(name) == name \in {"idea_bot_add", "idea_bot_get", "idea_artifact"}

AddParams_WrongColumn(args) ==
    [project_name |-> args.project_name,
     category |-> args.category,
     priority_level |-> OrNum(args.priority_level, 1),
     size_score |-> OrNum(args.priority_level, 1),
     business_impact |-> OrNum(args.business_impact, 1),
     resource_type |-> OrNum(args.resource_type, 1),
     risk_level |-> OrNum(args.risk_level, 1),
     project_phase |-> OrStr(args.project_phase, "Planning"),
     notes |-> OrStr(args.notes, "")]

\* the parameter array of the INSERT
AddParams(args) ==
    [project_name |-> args.project_name,
     category |-> args.category,
     priority_level |-> OrNum(args.priority_level, 1),
     size_score |-> OrNum(args.size_score, 1),
     business_impact |-> OrNum(args.business_impact, 1),
     resource_type |-> OrNum(args.resource_type, 1),
     risk_level |-> OrNum(args.risk_level, 1),
     project_phase |-> OrStr(args.project_phase, "Planning"),
     notes |-> OrStr(args.notes, "")]

\* the WHERE terms the get handler appends, in order
GetTerms(args) ==
    (IF TruthyChars(args.project_name)
     THEN <<[col |-> "project_name",
             param |-> <<"%">> \o args.project_name[1] \o <<"%">>]>>
     ELSE <<>>)
    \o (IF TruthyStr(args.category)
        THEN <<[col |-> "category", param |-> args.category[1]]>>
        ELSE <<>>)
    \o (IF TruthyNum(args.project_tier)
        THEN <<[col |-> "project_tier", param |-> args.project_tier[1]]>>
        ELSE <<>>)
    \o (IF TruthyStr(args.project_phase)
        THEN <<[col |-> "project_phase", param |-> args.project_phase[1]]>>
        ELSE <<>>)

AddedResult(args) ==
    [text |-> <<"Added project \"", args.project_name, "\" to database">>,
     data |-> <<>>, view |-> undefined, isError |-> FALSE]

GetResult(ideas) ==
    [text |-> <<>>, data |-> ideas, view |-> undefined, isError |-> FALSE]

ArtifactResult(ideas, args) ==
    [text |-> <<>>, data |-> ideas, view |-> args.view_type,
     isError |-> FALSE]

UnknownResult(name) ==
    [text |-> <<"Unknown tool: ", name>>, data |-> <<>>, view |-> undefined,
     isError |-> TRUE]

\* the catch block
CatchResult(message) ==
    [text |-> <<"Error: ", message>>, data |-> <<>>, view |-> undefined,
     isError |-> TRUE]

\* the message of the error thrown when the database file cannot be opened
OpenError == "SQLITE_CANTOPEN: unable to open database file"

\* the message of an error thrown by a statement for a reason other than a
\* column constraint (I/O error, busy database, missing table)
StmtError == "SQLITE_IOERR: disk I/O error"

Init ==
    /\ store = <<>>
    /\ pc = "idle"
    /\ request = NoRequest
    /\ result = NoResult
    /\ fault = "none"
    /\ path = <<>>
    /\ store0 = <<>>
    /\ emitted = 0
    /\ prevError = FALSE
    /\ lastArtifact = undefined
    /\ prevAdd = undefined

\* the SDK calls the handler with one of the requests of Reqs; the handler
\* destructures name and arguments
Receive(Reqs, cap) ==
    /\ pc = "idle"
    /\ \E r \in Reqs :
          /\ (r.name = "idea_bot_add" => Len(store) < cap)
          /\ request' = r
    /\ pc' = "validating"
    /\ result' = NoResult
    /\ fault' = "none"
    /\ path' = <<"validating">>
    /\ store0' = store
    /\ emitted' = 0
    /\ UNCHANGED <<store, prevError, lastArtifact, prevAdd>>

\* await getDb(), then the comparisons of name with the three tool names
Validate ==
    /\ pc = "validating"
    /\ \E opened \in BOOLEAN :
          IF ~opened
          THEN /\ fault' = "open"
               /\ result' = CatchResult(OpenError)
               /\ pc' = "responding"
          ELSE IF KnownTool(request.name)
          THEN /\ pc' = "executing"
               /\ UNCHANGED <<fault, result>>
          ELSE /\ result' = UnknownResult(request.name)
               /\ pc' = "responding"
               /\ UNCHANGED fault
    /\ path' = Append(path, pc')
    /\ UNCHANGED <<store, request, store0, emitted, prevError, lastArtifact,
                   prevAdd>>

\* the statement of the selected tool runs, or the store throws
ExecuteAdd(ok) ==
    /\ request.name = "idea_bot_add"
    /\ LET v == AddParams(request.args)
           err == ConstraintError(v)
       IN  IF ~ok
           THEN /\ fault' = "stmt"
                /\ result' = CatchResult(StmtError)
                /\ UNCHANGED <<store, lastArtifact>>
           ELSE IF err # ""
           THEN /\ result' = CatchResult(err)
                /\ UNCHANGED <<store, fault, lastArtifact>>
           ELSE /\ store' = Append(store, NewRow(store, v))
                /\ result' = AddedResult(request.args)
                /\ lastArtifact' = undefined
                /\ UNCHANGED fault

ExecuteGet(ok) ==
    /\ request.name = "idea_bot_get"
    /\ IF ~ok
       THEN /\ fault' = "stmt"
            /\ result' = CatchResult(StmtError)
       ELSE /\ result' = GetResult(SelectWhere(store, GetTerms(request.args)))
            /\ UNCHANGED fault
    /\ UNCHANGED <<store, lastArtifact>>

ExecuteArtifact(ok) ==
    /\ request.name = "idea_artifact"
    /\ IF ~ok
       THEN /\ fault' = "stmt"
            /\ result' = CatchResult(StmtError)
       ELSE /\ result' = ArtifactResult(OrderBy(store), request.args)
            /\ UNCHANGED fault
    /\ UNCHANGED <<store, lastArtifact>>

Execute ==
    /\ pc = "executing"
    /\ \E ok \in BOOLEAN :
          ExecuteAdd(ok) \/ ExecuteGet(ok) \/ ExecuteArtifact(ok)
    /\ pc' = "responding"
    /\ path' = Append(path, "responding")
    /\ UNCHANGED <<request, store0, emitted, prevError, prevAdd>>

\* the handler returns; the SDK sends the result
Respond ==
    /\ pc = "responding"
    /\ emitted' = emitted + 1
    /\ prevError' = result.isError
    /\ pc' = "idle"
    /\ request' = NoRequest
    /\ result' = NoResult
    /\ fault' = "none"
    /\ path' = <<>>
    /\ store0' = store
    /\ prevAdd' = IF request.name = "idea_bot_add" /\ ~result.isError
                  THEN Some([args |-> request.args, id |-> Len(store)])
                  ELSE undefined
    /\ lastArtifact' = IF request.name = "idea_artifact" /\ ~result.isError
                       THEN Some(result.data)
                       ELSE lastArtifact
    /\ UNCHANGED store

\* ------------------------------------------------------------ the requests
Req(n, a) == [name |-> n, args |-> a]

AddArgs(names, cats, ps, ss, bs, rs, ks, phases, notes) ==
    [project_name : names, category : cats, priority_level : ps,
     size_score : ss, business_impact : bs, resource_type : rs,
     risk_level : ks, project_phase : phases, notes : notes,
     project_tier : {undefined}, view_type : {undefined}]

GetArgs(names, cats, tiers, phases) ==
    [project_name : names, category : cats, priority_level : {undefined},
     size_score : {undefined}, business_impact : {undefined},
     resource_type : {undefined}, risk_level : {undefined},
     project_phase : phases, notes : {undefined},
     project_tier : tiers, view_type : {undefined}]

ArtifactArgs(views) == {[NoArgs EXCEPT !.view_type = v] : v \in views}

UnknownNames == {"idea_bot_delete", "add-idea"}

\* requests of every kind, with missing, empty and unrecognised arguments
DispatchRequests ==
    {Req("idea_bot_add", a) : a \in
        AddArgs({undefined, Some(<<>>), Some(<<"a">>)},
                {undefined, Some(""), Some("web")},
                {undefined, Some(5)}, {undefined}, {undefined}, {undefined},
                {undefined},
                {undefined, Some(""), Some("Done"), Some("Completed")},
                {undefined})}
    \cup {Req("idea_bot_get", a) : a \in
        GetArgs({undefined}, {undefined}, {undefined},
                {undefined, Some("Completed")})}
    \cup {Req("idea_artifact", a) : a \in ArtifactArgs({undefined})}
    \cup {Req(n, NoArgs) : n \in UnknownNames}

\* add-idea over the scored fields: absent, zero, negative, the maximum and
\* above the maximum
ScoreRequests ==
    {Req("idea_bot_add", a) : a \in
        AddArgs({Some(<<"a">>)}, {Some("web")},
                {undefined, Some(-1), Some(0), Some(1), Some(4), Some(5)},
                {undefined, Some(3), Some(4)},
                {undefined, Some(4), Some(-1)},
                {undefined, Some(3), Some(0)},
                {undefined, Some(2), Some(3), Some(4)},
                {undefined}, {undefined})}
    \cup {Req("idea_bot_get", NoArgs), Req("idea_artifact", NoArgs)}
    \cup {Req(n, NoArgs) : n \in UnknownNames}

QueryIdeas ==
    AddArgs({Some(<<"a">>), Some(<<"A", "b">>)}, {Some("web"), Some("ml")},
            {undefined, Some(4)}, {Some(3)}, {Some(4)}, {undefined},
            {undefined}, {undefined, Some("Completed")}, {undefined})

\* get-ideas over every combination of present and absent filters
QueryRequests ==
    {Req("idea_bot_add", a) : a \in QueryIdeas}
    \cup {Req("idea_bot_get", a) : a \in
        GetArgs({undefined, Some(<<>>), Some(<<"a">>), Some(<<"b">>),
                 Some(<<"_">>)},
                {undefined, Some("web")},
                {undefined, Some(0), Some(2), Some(4), Some(-1)},
                {undefined, Some("Completed")})}

RoundTripIdeas ==
    AddArgs({Some(<<"a">>), Some(<<"A", "b">>)}, {Some("web")},
            {undefined, Some(0), Some(4)}, {Some(3)}, {Some(4)}, {undefined},
            {undefined}, {undefined, Some("Completed")},
            {undefined, Some("n")})

\* add-idea with valid arguments, get-ideas filtered on a project_name only
RoundTripRequests ==
    {Req("idea_bot_add", a) : a \in RoundTripIdeas}
    \cup {Req("idea_bot_get", a) : a \in
        GetArgs({Some(<<"a">>), Some(<<"A", "b">>)}, {undefined},
                {undefined}, {undefined})}

\* ideas of several priorities and total scores, artifact with every view
ArtifactRequests ==
    {Req("idea_bot_add", a) : a \in
        AddArgs({Some(<<"a">>)}, {Some("web")},
                {undefined, Some(2), Some(4)}, {undefined}, {undefined},
                {undefined}, {undefined, Some(3)}, {undefined}, {undefined})}
    \cup {Req("idea_artifact", a) : a \in
        ArtifactArgs({undefined, Some("all"), Some("priority")})}
    \cup {Req("idea_bot_get", NoArgs)}

\* ------------------------------------------------------- the specifications
Next ==
    \/ Receive(DispatchRequests, MaxRows)
    \/ Validate
    \/ Execute
    \/ Respond

Spec == Init /\ [][Next]_vars

\* the event loop runs every continuation of an awaited promise and the SDK
\* sends every returned result
LiveSpec ==
    /\ Init /\ [][Next]_vars
    /\ WF_vars(Validate) /\ WF_vars(Execute) /\ WF_vars(Respond)

NextScore ==
    \/ Receive(ScoreRequests, MaxScoreRows)
    \/ Validate
    \/ Execute
    \/ Respond

SpecScore == Init /\ [][NextScore]_vars

NextQuery ==
    \/ Receive(QueryRequests, MaxQueryRows)
    \/ Validate
    \/ Execute
    \/ Respond

SpecQuery == Init /\ [][NextQuery]_vars

NextRoundTrip ==
    \/ Receive(RoundTripRequests, MaxRoundTripRows)
    \/ Validate
    \/ Execute
    \/ Respond

SpecRoundTrip == Init /\ [][NextRoundTrip]_vars

NextArtifact ==
    \/ Receive(ArtifactRequests, MaxArtifactRows)
    \/ Validate
    \/ Execute
    \/ Respond

SpecArtifact == Init /\ [][NextArtifact]_vars

\* ------------------------------------------------------------ the claims
\* what the documentation calls the inputs of the operations
Supplied(x) == Len(x) = 1

InRange(x, lo, hi) == Supplied(x) => (lo <= x[1] /\ x[1] <= hi)

ScoresInRange(a) ==
    /\ InRange(a.priority_level, 1, 4)
    /\ InRange(a.size_score, 1, 3)
    /\ InRange(a.business_impact, 1, 4)
    /\ InRange(a.resource_type, 1, 3)
    /\ InRange(a.risk_level, 1, 3)

NonEmptyName(a) == Supplied(a.project_name) /\ a.project_name[1] # <<>>

NonEmptyCategory(a) == Supplied(a.category) /\ a.category[1] # ""

PhaseOk(a) == Supplied(a.project_phase) => a.project_phase[1] \in Phases

ValidAdd(a) ==
    NonEmptyName(a) /\ NonEmptyCategory(a) /\ ScoresInRange(a) /\ PhaseOk(a)

\* the documented default of an omitted input
Default(x, d) == IF Supplied(x) THEN x[1] ELSE d

\* row r stores the inputs a, defaults substituted
StoresInputs(r, a) ==
    /\ r.project_name = a.project_name[1]
    /\ r.category = a.category[1]
    /\ r.priority_level = Default(a.priority_level, 1)
    /\ r.size_score = Default(a.size_score, 1)
    /\ r.business_impact = Default(a.business_impact, 1)
    /\ r.resource_type = Default(a.resource_type, 1)
    /\ r.risk_level = Default(a.risk_level, 1)
    /\ r.project_phase = Default(a.project_phase, "Planning")
    /\ r.notes = Default(a.notes, "")

\* the handler of tool n has computed its result and the store threw nothing
Answered(n) == pc = "responding" /\ request.name = n /\ fault = "none"

Unchanged == store = store0

\* exactly one row was appended by this invocation
InsertedOne ==
    /\ Len(store) = Len(store0) + 1
    /\ SubSeq(store, 1, Len(store0)) = store0

Ids(rows) == {rows[i].id : i \in 1..Len(rows)}

\* sub occurs in txt, compared character by character
Contains(sub, txt) ==
    \E k \in 0..(Len(txt) - Len(sub)) :
        SubSeq(txt, k + 1, k + Len(sub)) = sub

\* C1: in every reachable state every stored record has total_score equal to
\* the sum of its five scored fields and project_tier 1 if total_score >= 16,
\* 2 if 11 <= total_score < 16 and 3 if total_score < 11; and the INSERT of
\* add-idea binds no value to total_score or project_tier.
C1_ScoreAndTier ==
    /\ \A i \in 1..Len(store) :
          LET r == store[i] IN
          /\ r.total_score = r.priority_level + r.size_score
                + r.business_impact + r.resource_type + r.risk_level
          /\ (r.total_score >= 16 => r.project_tier = 1)
          /\ (r.total_score >= 11 /\ r.total_score < 16 => r.project_tier = 2)
          /\ (r.total_score < 11 => r.project_tier = 3)
    /\ (pc = "executing" /\ request.name = "idea_bot_add"
          => DOMAIN AddParams(request.args)
                \cap {"total_score", "project_tier"} = {})

\* a record on the boundary of tier 1 is stored
C1_Witness ==
    \E i \in 1..Len(store) :
        store[i].total_score = 16 /\ store[i].project_tier = 1

\* C2 as stated: after a successful add-idea with valid inputs, a get-ideas
\* filtered only on the same project_name returns exactly one record, which
\* stores the inputs (defaults substituted), whatever the store held before.
RoundTrip ==
    /\ Answered("idea_bot_get")
    /\ Supplied(prevAdd)
    /\ ValidAdd(prevAdd[1].args)
    /\ request.args =
          [NoArgs EXCEPT !.project_name = prevAdd[1].args.project_name]

C2_ExactlyOne ==
    RoundTrip =>
        /\ ~result.isError
        /\ Len(result.data) = 1
        /\ StoresInputs(result.data[1], prevAdd[1].args)

\* C2 amended: the result holds the new record exactly once, storing the
\* inputs (defaults substituted); every other record returned was stored
\* before and has a project_name matching LIKE '%name%'; the new record is
\* the only one returned when no record stored before matches.
C2_NewRecordReturned ==
    RoundTrip =>
        LET a == prevAdd[1].args
            pat == <<"%">> \o a.project_name[1] \o <<"%">>
            d == result.data
            new == {i \in 1..Len(d) : d[i].id = prevAdd[1].id}
        IN  /\ ~result.isError
            /\ Cardinality(new) = 1
            /\ \A i \in new : StoresInputs(d[i], a) /\ d[i] = store[d[i].id]
            /\ \A i \in (1..Len(d)) \ new :
                  /\ d[i].id < prevAdd[1].id
                  /\ d[i] = store[d[i].id]
                  /\ Like(d[i].project_name, pat)
            /\ ((\A j \in 1..(prevAdd[1].id - 1) :
                    ~Like(store[j].project_name, pat))
                  => Len(d) = 1)

\* a round trip on a store that held another, non-matching record, with
\* defaults substituted
C2_Witness ==
    /\ RoundTrip
    /\ Len(store) = 2
    /\ Len(result.data) = 1
    /\ ~Supplied(prevAdd[1].args.priority_level)
    /\ ~Supplied(prevAdd[1].args.notes)

\* C3: an add-idea in which a scored field is supplied outside its range
\* (0, negative or above the maximum) yields an error result and leaves the
\* stored records as they were.
C3_OutOfRangeRejected ==
    (pc = "responding" /\ request.name = "idea_bot_add"
        /\ ~ScoresInRange(request.args))
    => (result.isError /\ Unchanged)

\* C4: get-ideas returns exactly the stored records for which every supplied
\* filter holds: project_name a case-sensitive substring, category,
\* project_tier and project_phase equal; absent filters do not restrict.
Matches(r, a) ==
    /\ (Supplied(a.project_name)
          => Contains(a.project_name[1], r.project_name))
    /\ (Supplied(a.category) => r.category = a.category[1])
    /\ (Supplied(a.project_tier) => r.project_tier = a.project_tier[1])
    /\ (Supplied(a.project_phase) => r.project_phase = a.project_phase[1])

C4_ExactlyTheMatches ==
    Answered("idea_bot_get") =>
        /\ ~result.isError
        /\ result.data = SelectSeq(store, LAMBDA r : Matches(r, request.args))

\* C5: artifact returns all N stored records, priority_level non-increasing
\* and total_score non-increasing among equal priority_level, for every
\* view_type; and it returns them in the order of the previous artifact
\* result when no record was stored in between.
C5_ArtifactOrder ==
    Answered("idea_artifact") =>
        LET d == result.data IN
        /\ ~result.isError
        /\ Len(d) = Len(store)
        /\ \A i \in 1..Len(store) : \E j \in 1..Len(d) : d[j] = store[i]
        /\ \A i \in 1..(Len(d) - 1) :
              \/ d[i].priority_level > d[i + 1].priority_level
              \/ /\ d[i].priority_level = d[i + 1].priority_level
                 /\ d[i].total_score >= d[i + 1].total_score
        /\ (Supplied(lastArtifact) => d = lastArtifact[1])

\* a second artifact on unchanged data, whose order differs from the order
\* of insertion and which has records of equal priority_level
C5_Witness ==
    /\ Answered("idea_artifact")
    /\ Supplied(lastArtifact)
    /\ Len(store) >= 3
    /\ result.data # store
    /\ \E i \in 1..(Len(store) - 1) :
          /\ result.data[i].priority_level = result.data[i + 1].priority_level
          /\ result.data[i].total_score > result.data[i + 1].total_score

\* C6: an add-idea with a non-empty project_name and category that omits the
\* five scored fields (project_phase omitted or one of the four phases)
\* succeeds and inserts exactly one row, with the five scored fields 1,
\* total_score 5 and project_tier 3, and with project_phase "Planning" and
\* notes "" when these are omitted too.
OmitsScores(a) ==
    /\ ~Supplied(a.priority_level) /\ ~Supplied(a.size_score)
    /\ ~Supplied(a.business_impact) /\ ~Supplied(a.resource_type)
    /\ ~Supplied(a.risk_level)

C6_DefaultsInserted ==
    (Answered("idea_bot_add") /\ NonEmptyName(request.args)
        /\ NonEmptyCategory(request.args) /\ PhaseOk(request.args)
        /\ OmitsScores(request.args))
    => /\ ~result.isError
       /\ InsertedOne
       /\ LET r == store[Len(store)] IN
          /\ r.priority_level = 1 /\ r.size_score = 1
          /\ r.business_impact = 1 /\ r.resource_type = 1
          /\ r.risk_level = 1
          /\ r.total_score = 5 /\ r.project_tier = 3
          /\ r.project_name = request.args.project_name[1]
          /\ r.category = request.args.category[1]
          /\ ((~Supplied(request.args.project_phase)
                 /\ ~Supplied(request.args.notes))
                => r.project_phase = "Planning" /\ r.notes = "")

\* an add-idea with only project_name and category has inserted its row
C6_Witness ==
    /\ Answered("idea_bot_add")
    /\ request.args = [NoArgs EXCEPT !.project_name = Some(<<"a">>),
                                     !.category = Some("web")]
    /\ Len(store) = Len(store0) + 1

\* C7: an invocation whose name is none of the three operations goes from
\* Validating directly to Responding, with an error result whose payload is
\* "Unknown tool: <name>", whatever the state of the store, and the stored
\* records are unchanged.
C7_UnknownTool ==
    (pc = "responding" /\ request.name \in UnknownNames)
    => /\ path = <<"validating", "responding">>
       /\ result.isError
       /\ result.text = <<"Unknown tool: ", request.name>>
       /\ Unchanged

\* C8: every invocation eventually reaches Responding and emits exactly one
\* result, which carries the error flag whenever the store threw; and a
\* valid invocation on an available store succeeds also when the previous
\* invocation ended in an error result.
ValidRequest ==
    /\ KnownTool(request.name)
    /\ (request.name = "idea_bot_add" => ValidAdd(request.args))

C8_AlwaysResponds ==
    /\ [](pc \in {"validating", "executing"} => <>(pc = "responding"))
    /\ [](pc = "responding" => <>(pc = "idle" /\ emitted = 1))
    /\ [](pc \in {"validating", "executing", "responding"} => emitted = 0)
    /\ [](pc = "responding" =>
            /\ result.isError \in BOOLEAN
            /\ (fault # "none" => result.isError /\ Unchanged)
            /\ (result.isError => Len(result.text) = 2)
            /\ ((prevError /\ fault = "none" /\ ValidRequest)
                  => ~result.isError))

\* a valid add-idea succeeds right after an invocation that failed
C8_Witness ==
    /\ Answered("idea_bot_add")
    /\ prevError
    /\ ~result.isError
    /\ Len(store) = Len(store0) + 1

\* C9: an add-idea whose project_name or category is missing or empty, or
\* whose project_phase is supplied and is none of the four phases, yields an
\* error result and leaves the stored records as they were.
C9_InvalidRejected ==
    (pc = "responding" /\ request.name = "idea_bot_add"
        /\ (~NonEmptyName(request.args) \/ ~NonEmptyCategory(request.args)
              \/ ~PhaseOk(request.args)))
    => (result.isError /\ Unchanged)

\* C10: get-ideas with a project_tier filter outside {1,2,3} returns a
\* result without the error flag that holds no record.
C10_TierOutOfRange ==
    (Answered("idea_bot_get") /\ Supplied(request.args.project_tier)
        /\ request.args.project_tier[1] \notin {1, 2, 3})
    => (~result.isError /\ result.data = <<>>)

====
